---- MODULE Spec2Model ----
(***************************************************************************)
(* Model of the ward scoring engine of backend/calculate_mpi.py            *)
(* (class MPICalculator): the per-ward MPI score, the per-ward monsoon     *)
(* preparedness score, and the data frames the two batch methods return.   *)
(*                                                                         *)
(* Python floats are modelled as exact fixed-point integers:               *)
(*   scores                         1 point  = Unit (900) units            *)
(*   model_prob                     thousandths          (0 .. 1000)       *)
(*   rain_1h, rain_3h, forecast     thousandths of a millimetre            *)
(*   hist_flood_freq                tenths of an event                     *)
(*   drain/road/building density    tenths                                 *)
(*   mean_elevation                 metres                                 *)
(*   low_lying_pct                  percent                                *)
(*   urbanization / flood indices   hundredths           (0 .. 100)        *)
(*   monsoon_risk_score             hundredths           (0 .. 100)        *)
(*   sewerage_growth_rate           hundredths                             *)
(*   complaint and pothole counts   integers                               *)
(* Every formula below is the source formula multiplied out in these       *)
(* units; the input grids are chosen so that each division is exact.       *)
(* Exported fields rounded with round(x, 1) are held in tenths.            *)
(***************************************************************************)
EXTENDS Integers, Sequences, FiniteSets, TLC

\* fixed-point resolution of a score: units per point
Unit == 9 * 100

\* ---------------------------------------------------------------- bounds
MaxFloodFreq == 10
MaxComplaints == 200
MaxPotholes == 20
MaxRainMM == 70
MaxDrainDensity == 12
MaxElevation == 230
MaxLowLyingPct == 90
MaxRoadDensity == 6
MaxBuildingDensity == 3

\* ------------------------------------------------------- python helpers
Min(a, b) == IF a <= b THEN a ELSE b

Max(a, b) == IF a >= b THEN a ELSE b

\* dict.get(key, default)
Get(d, key, default) == IF key \in DOMAIN d THEN d[key] ELSE default

\* round(x / step) for x >= 0: the nearest integer.  Python rounds the binary
\* float, which for a value that is an exact decimal tie here lies a hair
\* above or below it, so a tie may come out as either neighbour.
RoundDiv(x, step) ==
    LET q == x \div step
        r == x % step
    IN  IF 2 * r < step THEN {q}
        ELSE IF 2 * r > step THEN {q + 1}
        ELSE {q, q + 1}

\* round(x, 1) of a score held in units: the result is in tenths of a point
Round1(x) == RoundDiv(x, Unit \div 10)

\* the empty mapping (a dict or table with no key)
EmptyMap == [k \in {} |-> 0]

\* ------------------------------------------------ calculate_mpi, per ward
\* RainScore with the bin limits compared by <= instead of <
RainScore_UpperInclusive(rain_total) ==
    IF rain_total <= 5000 THEN 0
    ELSE IF rain_total <= 15000 THEN 5 * Unit
    ELSE IF rain_total <= 35000 THEN 10 * Unit
    ELSE IF rain_total <= 65000 THEN 15 * Unit
    ELSE 20 * Unit

\* 2. Rainfall Severity: step function of rain_3h + rain_forecast_3h
RainScore(rain_total) ==
    IF rain_total < 5000 THEN 0
    ELSE IF rain_total < 15000 THEN 5 * Unit
    ELSE IF rain_total < 35000 THEN 10 * Unit
    ELSE IF rain_total < 65000 THEN 15 * Unit
    ELSE 20 * Unit

\* HistScore without the min(15, ...)
HistScore_NoCap(hist_flood_freq) == hist_flood_freq * 225

\* 3. Historical Risk: min(15, hist_flood_freq * 2.5)
HistScore(hist_flood_freq) == Min(15 * Unit, hist_flood_freq * 225)

\* DrainStress without the max(0, ...)
DrainStress_NoFloor(drain_density) == (100 - drain_density) * 54

\* drain_stress = max(0, 10 - drain_density) / 10 * 6
DrainStress(drain_density) == Max(0, 100 - drain_density) * 54

\* sewerage_stress = min(4, sewerage_complaints / 15 * (1 + growth_rate))
SewerageStress(sewerage_complaints, growth) ==
    Min(4 * Unit, (sewerage_complaints * (100 + growth) * 3) \div 5)

\* drainage_stress = min(3, drainage_complaints / 25)
DrainageStress(drainage_complaints) == Min(3 * Unit, drainage_complaints * 36)

\* pothole_stress = min(2, potholes / 5 + large_potholes / 2)
PotholeStress(potholes, large_potholes) ==
    Min(2 * Unit, potholes * 180 + large_potholes * 450)

\* the ward's row of a table, looked up as the code does: the civic table by
\* ward_id, the pothole table by ward_name (default 'Ward_<id>')
WardName(ward_id, static_feats) ==
    Get(static_feats, "ward_name", "Ward_" \o ward_id)

\* InfraTerms charging a ward without complaints row the default baseline of
\* 5 complaints instead of 0
InfraTerms_BaselineWhenMissing(ward_id, static_feats, civic, pothole, growth) ==
    LET drain_density == Get(static_feats, "drain_density", 0)
        has_civic == (~civic.is_none) /\ ward_id \in DOMAIN civic.rows
        ward_name == WardName(ward_id, static_feats)
        has_pothole == (~pothole.is_none) /\ ward_name \in DOMAIN pothole.rows
    IN  [drain_stress |-> DrainStress(drain_density),
         sewerage_stress |->
             IF has_civic
             THEN SewerageStress(civic.rows[ward_id].sewerage_complaints, growth)
             ELSE SewerageStress(5, growth),
         drainage_stress |->
             IF has_civic
             THEN DrainageStress(civic.rows[ward_id].drainage_complaints)
             ELSE DrainageStress(5),
         pothole_stress |->
             IF has_pothole
             THEN PotholeStress(pothole.rows[ward_name].total_reports,
                                pothole.rows[ward_name].large_potholes)
             ELSE 0]

\* 4. Enhanced Infrastructure Stress: the four sub-terms
InfraTerms(ward_id, static_feats, civic, pothole, growth) ==
    LET drain_density == Get(static_feats, "drain_density", 0)
        has_civic == (~civic.is_none) /\ ward_id \in DOMAIN civic.rows
        ward_name == WardName(ward_id, static_feats)
        has_pothole == (~pothole.is_none) /\ ward_name \in DOMAIN pothole.rows
    IN  [drain_stress |-> DrainStress(drain_density),
         sewerage_stress |->
             IF has_civic
             THEN SewerageStress(civic.rows[ward_id].sewerage_complaints, growth)
             ELSE 0,
         drainage_stress |->
             IF has_civic
             THEN DrainageStress(civic.rows[ward_id].drainage_complaints)
             ELSE 0,
         pothole_stress |->
             IF has_pothole
             THEN PotholeStress(pothole.rows[ward_name].total_reports,
                                pothole.rows[ward_name].large_potholes)
             ELSE 0]

\* 5. Enhanced Vulnerability, before the urban penalty
BaseVuln(static_feats) ==
    LET low_lying_pct == Get(static_feats, "low_lying_pct", 15)
        mean_elevation == Get(static_feats, "mean_elevation", 215)
    IN  IF "flood_vulnerability_index" \in DOMAIN static_feats
        THEN static_feats["flood_vulnerability_index"] * 90
        ELSE Max(0, (220 - mean_elevation) * 300) + low_lying_pct * 150

\* UrbanPenalty applied from rain_1h >= 10 instead of > 10
UrbanPenalty_FromTen(static_feats, rainfall_features) ==
    IF "urbanization_index" \in DOMAIN static_feats
    THEN LET urban_idx == static_feats["urbanization_index"]
             rain_intensity == rainfall_features.rain_1h
         IN  IF rain_intensity >= 10000
             THEN (urban_idx * rain_intensity * 18) \div 10000
             ELSE 0
    ELSE 0

\* urban congestion penalty: urban_idx * rain_intensity / 10 * 2 in heavy rain
UrbanPenalty(static_feats, rainfall_features) ==
    IF "urbanization_index" \in DOMAIN static_feats
    THEN LET urban_idx == static_feats["urbanization_index"]
             rain_intensity == rainfall_features.rain_1h
         IN  IF rain_intensity > 10000
             THEN (urban_idx * rain_intensity * 18) \div 10000
             ELSE 0
    ELSE 0

\* vuln_score = min(10, vuln_score + urban_penalty)
VulnScore(static_feats, rainfall_features) ==
    Min(10 * Unit, BaseVuln(static_feats) + UrbanPenalty(static_feats, rainfall_features))

\* RiskLevel with the limits compared by <= instead of <
RiskLevel_UpperInclusive(mpi) ==
    IF mpi <= 30 * Unit THEN "Low"
    ELSE IF mpi <= 50 * Unit THEN "Moderate"
    ELSE IF mpi <= 70 * Unit THEN "High"
    ELSE "Critical"

\* Risk level of a total
RiskLevel(mpi) ==
    IF mpi < 30 * Unit THEN "Low"
    ELSE IF mpi < 50 * Unit THEN "Moderate"
    ELSE IF mpi < 70 * Unit THEN "High"
    ELSE "Critical"

\* MPITotal without the vulnerability component
MPITotal_NoVulnerability(model_score, rain_score, hist_score, infra_score, vuln_score) ==
    model_score + rain_score + hist_score + infra_score

\* Total MPI: the sum of the five component scores
MPITotal(model_score, rain_score, hist_score, infra_score, vuln_score) ==
    model_score + rain_score + hist_score + infra_score + vuln_score

\* ModelScore with the weight 30 instead of 40
ModelScore_Weight30(model_prob) == model_prob * 27

\* 1. model_score = model_prob * 40 (model_prob in thousandths, score in units)
ModelScore(model_prob) == model_prob * 36

\* the body of the loop of calculate_mpi for one ward: the locals it computes
\* (unrounded, in units) and the row it appends (rounded, in tenths); the
\* result is the set of rows the roundings allow
WardMPI(ward_id, static_feats, hist_feats, civic, pothole, growth, rainfall_features, model_prob) ==
    LET model_score == ModelScore(model_prob)
        rain_total == rainfall_features.rain_3h + rainfall_features.rain_forecast_3h
        rain_score == RainScore(rain_total)
        hist_flood_freq == Get(hist_feats, "hist_flood_freq", 0)
        hist_score == HistScore(hist_flood_freq)
        terms == InfraTerms(ward_id, static_feats, civic, pothole, growth)
        infra_score == terms.drain_stress + terms.sewerage_stress
                       + terms.drainage_stress + terms.pothole_stress
        vuln_score == VulnScore(static_feats, rainfall_features)
        mpi == MPITotal(model_score, rain_score, hist_score, infra_score, vuln_score)
    IN  {[ward_id |-> ward_id,
         \* locals
         mpi |-> mpi,
         model_score |-> model_score,
         rain_total |-> rain_total,
         rain_score |-> rain_score,
         hist_score |-> hist_score,
         drain_stress |-> terms.drain_stress,
         sewerage_stress |-> terms.sewerage_stress,
         drainage_stress |-> terms.drainage_stress,
         pothole_stress |-> terms.pothole_stress,
         infra_score |-> infra_score,
         vuln_score |-> vuln_score,
         \* exported row
         mpi_score |-> r_mpi,
         risk_level |-> RiskLevel(mpi),
         model_prob |-> model_prob,
         model_contribution |-> r_model,
         rainfall_contribution |-> r_rain,
         historical_contribution |-> r_hist,
         infrastructure_contribution |-> r_infra,
         vulnerability_contribution |-> r_vuln,
         current_rain_mm |-> rainfall_features.rain_1h,
         forecast_rain_mm |-> rainfall_features.rain_forecast_3h,
         hist_flood_count |-> hist_flood_freq,
         sewerage_complaints |-> r_sewerage,
         drainage_complaints |-> r_drainage,
         pothole_count |->
             IF terms.pothole_stress > 0
             THEN (terms.pothole_stress * 5) \div Unit ELSE 0] :
        r_mpi \in Round1(mpi),
        r_model \in Round1(model_score),
        r_rain \in Round1(rain_score),
        r_hist \in Round1(hist_score),
        r_infra \in Round1(infra_score),
        r_vuln \in Round1(vuln_score),
        r_sewerage \in IF terms.sewerage_stress > 0
                       THEN RoundDiv(terms.sewerage_stress * 15, Unit) ELSE {0},
        r_drainage \in IF terms.drainage_stress > 0
                       THEN RoundDiv(terms.drainage_stress * 25, Unit) ELSE {0}}

\* ------------------------------- calculate_monsoon_preparedness, per ward
\* 1. Infrastructure Capacity: max(0, min(30, drain_density * 5) - penalty),
\*    penalty = min(10, drainage_complaints / 30 + sewerage_complaints / 20)
InfraCapacity(ward_id, static_feats, civic) ==
    LET drain_density == Get(static_feats, "drain_density", 0)
        drain_capacity == Min(30 * Unit, drain_density * 450)
        complaint_penalty ==
            IF (~civic.is_none) /\ ward_id \in DOMAIN civic.rows
            THEN Min(10 * Unit, civic.rows[ward_id].drainage_complaints * 30
                                + civic.rows[ward_id].sewerage_complaints * 45)
            ELSE 0
    IN  Max(0, drain_capacity - complaint_penalty)

\* 2. Historical Resilience: max(0, 25 - freq * 4) + (1 - monsoon_risk) * 10
HistoricalResilience(hist_feats) ==
    LET hist_flood_freq == Get(hist_feats, "hist_flood_freq", 0)
        monsoon_risk == Get(hist_feats, "monsoon_risk_score", 50)
        flood_resilience == Max(0, 25 * Unit - hist_flood_freq * 360)
        risk_resilience == (100 - monsoon_risk) * 90
    IN  flood_resilience + risk_resilience

\* 3. Resource Readiness: min(10, road_density * 2) + min(10, building_density * 5)
ResourceReadiness(static_feats) ==
    LET road_access ==
            IF "road_density" \in DOMAIN static_feats
            THEN Min(10 * Unit, static_feats["road_density"] * 180)
            ELSE 5 * Unit
        building_factor ==
            IF "building_density" \in DOMAIN static_feats
            THEN Min(10 * Unit, static_feats["building_density"] * 450)
            ELSE 5 * Unit
    IN  road_access + building_factor

\* 4. Vulnerability Gap: max(0, 15 - (physical_vuln - infra_capacity / 3))
VulnGap(static_feats, infra_capacity) ==
    LET low_lying_pct == Get(static_feats, "low_lying_pct", 15)
        mean_elevation == Get(static_feats, "mean_elevation", 215)
        physical_vuln == low_lying_pct * 240 + Max(0, 220 - mean_elevation) * 315
    IN  Max(0, 15 * Unit - (physical_vuln - (infra_capacity \div 3)))

\* 5. Maintenance Score: max(0, 10 - min(5, potholes / 4) - growth_rate * 3)
MaintenanceScore(ward_id, static_feats, pothole, growth) ==
    LET ward_name == WardName(ward_id, static_feats)
        maintenance_penalty ==
            IF (~pothole.is_none) /\ ward_name \in DOMAIN pothole.rows
            THEN Min(5 * Unit, pothole.rows[ward_name].total_reports * 225)
            ELSE 0
        sewerage_penalty == growth * 27
    IN  Max(0, 10 * Unit - maintenance_penalty - sewerage_penalty)

\* Preparedness level of a total
PrepLevel(preparedness) ==
    IF preparedness >= 75 * Unit THEN "Excellent"
    ELSE IF preparedness >= 60 * Unit THEN "Good"
    ELSE IF preparedness >= 45 * Unit THEN "Moderate"
    ELSE IF preparedness >= 30 * Unit THEN "Poor"
    ELSE "Critical"

\* PrepRecommendation with the limits compared by > instead of >=
PrepRecommendation_Strict(preparedness) ==
    IF preparedness > 75 * Unit
    THEN "Well-prepared. Maintain current standards."
    ELSE IF preparedness > 60 * Unit
    THEN "Adequate preparation. Minor improvements needed."
    ELSE IF preparedness > 45 * Unit
    THEN "Significant gaps. Prioritize drainage maintenance."
    ELSE IF preparedness > 30 * Unit
    THEN "Critical improvements needed before monsoon."
    ELSE "Emergency intervention required. High failure risk."

\* the recommendation assigned in the same branch as the level
PrepRecommendation(preparedness) ==
    IF preparedness >= 75 * Unit
    THEN "Well-prepared. Maintain current standards."
    ELSE IF preparedness >= 60 * Unit
    THEN "Adequate preparation. Minor improvements needed."
    ELSE IF preparedness >= 45 * Unit
    THEN "Significant gaps. Prioritize drainage maintenance."
    ELSE IF preparedness >= 30 * Unit
    THEN "Critical improvements needed before monsoon."
    ELSE "Emergency intervention required. High failure risk."

\* insertion order of the component_scores dict
ComponentOrder ==
    <<"Infrastructure", "Resilience", "Resources", "Vulnerability", "Maintenance">>

\* Weakest taking the last key, in insertion order, whose value is the least
Weakest_LastOnTies(component_scores) ==
    LET least(i) == \A j \in 1..Len(ComponentOrder) :
                        component_scores[ComponentOrder[i]]
                            <= component_scores[ComponentOrder[j]]
        last == CHOOSE i \in 1..Len(ComponentOrder) :
                    least(i) /\ \A j \in (i + 1)..Len(ComponentOrder) : ~least(j)
    IN  ComponentOrder[last]

\* min(component_scores, key=component_scores.get): the first key, in
\* insertion order, whose value is the least
Weakest(component_scores) ==
    LET least(i) == \A j \in 1..Len(ComponentOrder) :
                        component_scores[ComponentOrder[i]]
                            <= component_scores[ComponentOrder[j]]
        first == CHOOSE i \in 1..Len(ComponentOrder) :
                     least(i) /\ \A j \in 1..(i - 1) : ~least(j)
    IN  ComponentOrder[first]

\* Total Preparedness Score: the sum of the five components
PrepTotal(infra_capacity, historical_resilience, resource_readiness, vuln_gap, maintenance_score) ==
    infra_capacity + historical_resilience + resource_readiness
    + vuln_gap + maintenance_score

\* the body of the loop of calculate_monsoon_preparedness for one ward: the
\* set of rows the roundings allow
WardPreparedness(ward_id, static_feats, hist_feats, civic, pothole, growth) ==
    LET infra_capacity == InfraCapacity(ward_id, static_feats, civic)
        historical_resilience == HistoricalResilience(hist_feats)
        resource_readiness == ResourceReadiness(static_feats)
        vuln_gap == VulnGap(static_feats, infra_capacity)
        maintenance_score == MaintenanceScore(ward_id, static_feats, pothole, growth)
        preparedness == PrepTotal(infra_capacity, historical_resilience,
                                  resource_readiness, vuln_gap, maintenance_score)
        component_scores ==
            [Infrastructure |-> infra_capacity,
             Resilience |-> historical_resilience,
             Resources |-> resource_readiness,
             Vulnerability |-> vuln_gap,
             Maintenance |-> maintenance_score]
    IN  {[ward_id |-> ward_id,
         \* locals
         preparedness |-> preparedness,
         component_scores |-> component_scores,
         \* exported row
         preparedness_score |-> r_total,
         preparedness_level |-> PrepLevel(preparedness),
         infra_capacity |-> r_infra,
         historical_resilience |-> r_hist,
         resource_readiness |-> r_res,
         vulnerability_gap |-> r_vuln,
         maintenance_score |-> r_maint,
         weakest_component |-> Weakest(component_scores),
         recommendation |-> PrepRecommendation(preparedness),
         drain_density |-> Get(static_feats, "drain_density", 0),
         hist_flood_count |-> Get(hist_feats, "hist_flood_freq", 0)] :
        r_total \in Round1(preparedness),
        r_infra \in Round1(infra_capacity),
        r_hist \in Round1(historical_resilience),
        r_res \in Round1(resource_readiness),
        r_vuln \in Round1(vuln_gap),
        r_maint \in Round1(maintenance_score)}

\* ------------------------------------------------------------------ state
VARIABLES
    ward_static,          \* self.ward_static: [is_none, index: ward ids in row order, rows: id -> features]
    ward_historical,      \* self.ward_historical: [is_none, rows: id -> features]
    civic_loaded,         \* load_civic_complaints has run (its attributes exist)
    civic_complaints,     \* self.civic_complaints: [is_none, rows: id -> complaints]
    pothole_by_ward,      \* self.pothole_by_ward: [is_none, rows: ward_name -> counts]
    sewerage_growth_rate, \* self.sewerage_growth_rate
    rainfall_features,    \* the rainfall observation passed to calculate_mpi
    predictor,            \* what model.predict_proba answers for each ward's vector
    mpi_out,              \* outcome of calculate_mpi: [status, df]
    prep_out,             \* outcome of calculate_monsoon_preparedness: [status, df]
    zone_out,             \* outcome of calculate_zone_preparedness: [status, df]
    calc_model,           \* self.model is not None
    files,                \* what is on disk: the model artifact, the ward data, the civic files
    pc,                   \* where main() of calculate_mpi.py stands
    written,              \* the output files on disk: name -> content
    service,              \* the globals of api/main.py: [state, model, ward_static_data, ward_historical_data]
    response              \* the answer to the last request the service handled

vars == <<ward_static, ward_historical, civic_loaded, civic_complaints,
          pothole_by_ward, sewerage_growth_rate, rainfall_features, predictor,
          mpi_out, prep_out, zone_out, calc_model, files, pc, written,
          service, response>>

inputs == <<ward_static, ward_historical, civic_loaded, civic_complaints,
            pothole_by_ward, sewerage_growth_rate, rainfall_features, predictor>>

\* the state outside the calculator's tables and call outcomes: disk, the
\* position of main(), and the service
outside == <<calc_model, files, pc, written, service, response>>

\* a call that has not been made yet
NotCalled == [status |-> "none", df |-> <<>>]

\* --------------------------------------------------------- input domains
\* The inputs of one ward fall into six independent groups.  A state of Init
\* either takes every group from its corner values (Coarse), or takes one
\* group (the focus) from its full grid and the others from one base profile.
WardId == "A1"

Bases == {"lo", "mid", "hi", "scenario"}

Focuses == {"corner", "model", "rain", "hist", "infra", "vuln", "resources"}

Pick(focus, group, full, coarse, base) ==
    IF focus = group THEN full
    ELSE IF focus = "corner" THEN coarse
    ELSE {base}

Opt(has, v) == [has |-> has, v |-> v]

\* model probability, thousandths
ProbFull == {0, 1, 250, 500, 749, 750, 900, 1000}

ProbCoarse == {0, 1000}

ProbBase(b) ==
    CASE b = "lo" -> 0 [] b = "hi" -> 1000 [] b = "scenario" -> 900
      [] OTHER -> 333

\* rain_3h and rain_forecast_3h, thousandths of a millimetre
RainVal(a, f) == [rain_3h |-> a, rain_forecast_3h |-> f]

RainFull ==
    {RainVal(a, f) :
        a \in {0, 4999, 5000, 14999, 15000, 34999, 35000, 64999, 65000,
               MaxRainMM * 1000},
        f \in {0, 1, 5000}}

RainCoarse == {RainVal(0, 0), RainVal(MaxRainMM * 1000, 0)}

RainBase(b) ==
    CASE b = "lo" -> RainVal(0, 0)
      [] b = "hi" -> RainVal(MaxRainMM * 1000, 0)
      [] b = "scenario" -> RainVal(70000, 0)
      [] OTHER -> RainVal(12000, 6500)

\* the ward's historical row, or no row
HistVal(freq, risk) ==
    [present |-> TRUE,
     feats |-> [hist_flood_freq |-> freq, monsoon_risk_score |-> risk,
                complaint_baseline |-> 5]]

HistAbsent == [present |-> FALSE, feats |-> EmptyMap]

HistFull ==
    {HistAbsent} \cup
    {HistVal(f, r) : f \in {0, 2, 30, 58, 60, 62, 10 * MaxFloodFreq},
                     r \in {0, 50, 100}}

HistCoarse == {HistVal(0, 0), HistVal(10 * MaxFloodFreq, 100)}

HistBase(b) ==
    CASE b = "lo" -> HistVal(0, 0)
      [] b = "hi" -> HistVal(10 * MaxFloodFreq, 100)
      [] b = "scenario" -> HistVal(0, 50)
      [] OTHER -> HistVal(22, 50)

\* drain density, ward name, and what load_civic_complaints left behind
CivicRow(s, d) == [sewerage_complaints |-> s, drainage_complaints |-> d]

PotholeRow(p, l) == [total_reports |-> p, large_potholes |-> l]

NoTable == [is_none |-> TRUE, rows |-> EmptyMap]

Table(rows) == [is_none |-> FALSE, rows |-> rows]

InfraVal(dd, named, loaded, civic, pothole, growth) ==
    [drain_density |-> dd, named |-> named, loaded |-> loaded,
     civic |-> civic, pothole |-> pothole, growth |-> growth]

CivicTables ==
    {Table(EmptyMap)} \cup
    {Table(WardId :> CivicRow(s, d)) :
        s \in {0, 1, 60, MaxComplaints}, d \in {0, 1, MaxComplaints}}

PotholeKeys == {"Rohini", "Ward_" \o WardId}

PotholeTables ==
    {NoTable, Table(EmptyMap)} \cup
    {Table(k :> PotholeRow(c[1], c[2])) :
        k \in PotholeKeys, c \in {<<1, 0>>, <<4, 1>>, <<MaxPotholes, 4>>}}

InfraFull ==
    {InfraVal(dd, named, FALSE, NoTable, NoTable, 0) :
        dd \in {0, 60}, named \in BOOLEAN} \cup
    {InfraVal(dd, named, TRUE, c, p, g) :
        dd \in {0, 1, 60, 99, 10 * MaxDrainDensity}, named \in BOOLEAN,
        c \in CivicTables, p \in PotholeTables, g \in {0, 75, 100}}

InfraLo ==
    InfraVal(10 * MaxDrainDensity, TRUE, TRUE, Table(EmptyMap), NoTable, 0)

InfraHi ==
    InfraVal(0, TRUE, TRUE,
             Table(WardId :> CivicRow(MaxComplaints, MaxComplaints)),
             Table("Rohini" :> PotholeRow(MaxPotholes, 4)), 75)

InfraMid ==
    InfraVal(33, TRUE, TRUE, Table(WardId :> CivicRow(7, 11)),
             Table("Rohini" :> PotholeRow(3, 1)), 75)

\* no drains and no civic data at all
InfraScenario == InfraVal(0, TRUE, TRUE, Table(EmptyMap), NoTable, 75)

InfraCoarse == {InfraLo, InfraHi}

InfraBase(b) ==
    CASE b = "lo" -> InfraLo [] b = "hi" -> InfraHi
      [] b = "scenario" -> InfraScenario [] OTHER -> InfraMid

\* elevation, low-lying share, the two optional indices, and rain_1h
VulnVal(e, ll, fvi, urb, r1) ==
    [mean_elevation |-> e, low_lying_pct |-> ll, fvi |-> fvi, urb |-> urb,
     rain_1h |-> r1]

IndexOpts == {Opt(FALSE, 0)} \cup {Opt(TRUE, x) : x \in {0, 50, 100}}

VulnFull ==
    {VulnVal(e, ll, fvi, urb, r1) :
        e \in {190, 205, 219, 220, MaxElevation},
        ll \in {0, 1, 15, 30, MaxLowLyingPct},
        fvi \in IndexOpts, urb \in IndexOpts,
        r1 \in {0, 10000, 11000, 20000, 50000}}

VulnLo == VulnVal(MaxElevation, 0, Opt(FALSE, 0), Opt(FALSE, 0), 0)

VulnHi == VulnVal(190, MaxLowLyingPct, Opt(TRUE, 100), Opt(TRUE, 100), 50000)

VulnMid == VulnVal(214, 7, Opt(FALSE, 0), Opt(TRUE, 50), 12000)

\* at the reference elevation, nothing low-lying, no precomputed index
VulnScenario == VulnVal(220, 0, Opt(FALSE, 0), Opt(TRUE, 50), 0)

VulnCoarse == {VulnLo, VulnHi}

VulnBase(b) ==
    CASE b = "lo" -> VulnLo [] b = "hi" -> VulnHi
      [] b = "scenario" -> VulnScenario [] OTHER -> VulnMid

\* the optional road_density and building_density columns, tenths
ResVal(road, building) == [road |-> road, building |-> building]

ResFull ==
    {ResVal(r, b) :
        r \in {Opt(FALSE, 0)} \cup
              {Opt(TRUE, x) : x \in {0, 25, 50, 10 * MaxRoadDensity}},
        b \in {Opt(FALSE, 0)} \cup
              {Opt(TRUE, x) : x \in {0, 10, 20, 10 * MaxBuildingDensity}}}

ResLo == ResVal(Opt(TRUE, 0), Opt(TRUE, 0))

ResHi == ResVal(Opt(TRUE, 10 * MaxRoadDensity), Opt(TRUE, 10 * MaxBuildingDensity))

ResMid == ResVal(Opt(FALSE, 0), Opt(TRUE, 13))

ResCoarse == {ResLo, ResHi}

ResBase(b) == CASE b = "lo" -> ResLo [] b = "hi" -> ResHi [] OTHER -> ResMid

\* one optional column of a row
Column(name, opt) == IF opt.has THEN name :> opt.v ELSE EmptyMap

\* the ward's row of the static table (self.ward_static.loc[ward_id].to_dict())
StaticFeats(i, v, z) ==
    [drain_density |-> i.drain_density,
     mean_elevation |-> v.mean_elevation,
     low_lying_pct |-> v.low_lying_pct]
    @@ Column("ward_name", Opt(i.named, "Rohini"))
    @@ Column("flood_vulnerability_index", v.fvi)
    @@ Column("urbanization_index", v.urb)
    @@ Column("road_density", z.road)
    @@ Column("building_density", z.building)

\* nothing on disk: no model artifact, no ward data, no civic file
NoFiles ==
    [model |-> "missing",
     wards |-> [ok |-> FALSE, index |-> <<>>, static |-> EmptyMap,
                historical |-> EmptyMap],
     sewerage |-> Opt(FALSE, 0),
     pothole |-> NoTable,
     complaints |-> NoTable]

\* ward_static_data / ward_historical_data without a ward ({} or None)
NoData == [index |-> <<>>, rows |-> EmptyMap]

\* the service before startup_event
ServiceDown ==
    [state |-> "down", model |-> FALSE, ward_static_data |-> NoData,
     ward_historical_data |-> NoData]

\* no request handled yet
NoResponse ==
    [op |-> "none", ward_id |-> "", code |-> 0, detail |-> "",
     vectors |-> <<>>, body |-> <<>>]

\* ------------------------------------------------------------------- Init
\* the calculator after load_model, load_ward_data and (when civic_loaded)
\* load_civic_complaints, with one ward in its tables
Init ==
    \E focus \in Focuses, base \in Bases :
      \E p \in Pick(focus, "model", ProbFull, ProbCoarse, ProbBase(base)),
         r \in Pick(focus, "rain", RainFull, RainCoarse, RainBase(base)),
         h \in Pick(focus, "hist", HistFull, HistCoarse, HistBase(base)),
         i \in Pick(focus, "infra", InfraFull, InfraCoarse, InfraBase(base)),
         v \in Pick(focus, "vuln", VulnFull, VulnCoarse, VulnBase(base)),
         z \in Pick(focus, "resources", ResFull, ResCoarse, ResBase(base)) :
        /\ ward_static = [is_none |-> FALSE, index |-> <<WardId>>,
                          rows |-> WardId :> StaticFeats(i, v, z)]
        /\ ward_historical =
               [is_none |-> FALSE,
                rows |-> IF h.present THEN WardId :> h.feats ELSE EmptyMap]
        /\ civic_loaded = i.loaded
        /\ civic_complaints = i.civic
        /\ pothole_by_ward = i.pothole
        /\ sewerage_growth_rate = i.growth
        /\ rainfall_features = [rain_1h |-> v.rain_1h, rain_3h |-> r.rain_3h,
                                rain_forecast_3h |-> r.rain_forecast_3h]
        /\ predictor = WardId :> p
        /\ mpi_out = NotCalled
        /\ prep_out = NotCalled
        /\ zone_out = NotCalled
        /\ calc_model = TRUE
        /\ files = NoFiles
        /\ pc = "idle"
        /\ written = EmptyMap
        /\ service = ServiceDown
        /\ response = NoResponse

\* ---------------------------------------------------------------- actions
\* the exception one pass of a scoring loop raises at ward w, or "ok":
\* self.ward_historical.loc[w] raises KeyError for a ward without a row, and
\* self.pothole_by_ward raises AttributeError before load_civic_complaints
WardFailure(w) ==
    IF ward_historical.is_none THEN "AttributeError"
    ELSE IF w \notin DOMAIN ward_historical.rows THEN "KeyError"
    ELSE IF ~civic_loaded THEN "AttributeError"
    ELSE "ok"

\* the exception a loop over the static index ends with, or "ok": None has
\* no index; an empty result list makes a frame without columns, and
\* selecting the score column from it raises KeyError
LoopFailure ==
    LET idx == ward_static.index
        bad == {k \in 1..Len(idx) : WardFailure(idx[k]) # "ok"}
    IN  IF ward_static.is_none THEN "AttributeError"
        ELSE IF bad # {}
        THEN WardFailure(idx[CHOOSE k \in bad : \A j \in bad : k <= j])
        ELSE IF Len(idx) = 0 THEN "KeyError"
        ELSE "ok"

\* SortValues ordering the other way round
SortValues_Flipped(rows, column, ascending) ==
    LET n == Len(rows)
        ordered(s) == \A k \in 1..(n - 1) :
                          IF ascending THEN s[k][column] >= s[k + 1][column]
                          ELSE s[k][column] <= s[k + 1][column]
    IN  {s \in {[k \in 1..n |-> rows[f[k]]] : f \in Permutations(1..n)} :
            ordered(s)}

\* df.sort_values(column, ascending=...): every reordering of the rows that
\* is ordered by the column (the order of equal keys is not guaranteed)
SortValues(rows, column, ascending) ==
    LET n == Len(rows)
        ordered(s) == \A k \in 1..(n - 1) :
                          IF ascending THEN s[k][column] <= s[k + 1][column]
                          ELSE s[k][column] >= s[k + 1][column]
    IN  {s \in {[k \in 1..n |-> rows[f[k]]] : f \in Permutations(1..n)} :
            ordered(s)}

\* the lists that take their k-th element from the k-th set
RECURSIVE Product(_)
Product(sets) ==
    IF sets = <<>> THEN {<<>>}
    ELSE {<<h>> \o t : h \in Head(sets), t \in Product(Tail(sets))}

\* the lists of rows a loop over the static index can append, in index
\* order, when body[w] is the set of rows the loop body can make for ward w
LoopResults(body) ==
    LET idx == ward_static.index
    IN  Product([k \in 1..Len(idx) |-> body[idx[k]]])

\* the rows calculate_mpi appends
MPIRows ==
    LoopResults([w \in DOMAIN ward_static.rows |->
        WardMPI(w, ward_static.rows[w], ward_historical.rows[w],
                civic_complaints, pothole_by_ward, sewerage_growth_rate,
                rainfall_features, predictor[w])])

\* the exception calculate_mpi ends with, or "ok": without a model
\* self.feature_engineer is None, and the temporal features cannot be computed
MPIFailure == IF ~calc_model THEN "AttributeError" ELSE LoopFailure

\* MPIOutcomes returning the rows in the order they were appended
MPIOutcomes_Unsorted ==
    IF MPIFailure = "ok"
    THEN {[status |-> "ok", df |-> rows] : rows \in MPIRows}
    ELSE {[status |-> MPIFailure, df |-> <<>>]}

\* what a call of calculate_mpi can end with: the frame of rows sorted by
\* mpi_score, highest first, or an exception
MPIOutcomes ==
    IF MPIFailure = "ok"
    THEN {[status |-> "ok", df |-> df] :
             df \in UNION {SortValues(rows, "mpi_score", FALSE) : rows \in MPIRows}}
    ELSE {[status |-> MPIFailure, df |-> <<>>]}

\* calculate_mpi(rainfall_features)
CalculateMPI ==
    /\ mpi_out.status = "none"
    /\ mpi_out' \in MPIOutcomes
    /\ UNCHANGED <<inputs, prep_out, zone_out, outside>>

\* the rows calculate_monsoon_preparedness appends
PrepRows ==
    LoopResults([w \in DOMAIN ward_static.rows |->
        WardPreparedness(w, ward_static.rows[w], ward_historical.rows[w],
                         civic_complaints, pothole_by_ward,
                         sewerage_growth_rate)])

\* what a call of calculate_monsoon_preparedness can end with: the frame of
\* rows in index order, or an exception
PrepOutcomes ==
    IF LoopFailure = "ok"
    THEN {[status |-> "ok", df |-> rows] : rows \in PrepRows}
    ELSE {[status |-> LoopFailure, df |-> <<>>]}

\* calculate_monsoon_preparedness()
CalculateMonsoonPreparedness ==
    /\ prep_out.status = "none"
    /\ prep_out' \in PrepOutcomes
    /\ UNCHANGED <<inputs, mpi_out, zone_out, outside>>

Next == CalculateMPI \/ CalculateMonsoonPreparedness

Spec == Init /\ [][Next]_vars

\* ---------------------------------------------- calculate_zone_preparedness
\* the longest frame of ward records handed to the aggregation
MaxZoneWards == 3

\* str(ward_id), character by character, for the ward ids in use
Chars ==
    "A1" :> <<"A", "1">> @@ "A2" :> <<"A", "2">> @@ "3A" :> <<"3", "A">>
    @@ "B-1" :> <<"B", "-", "1">> @@ "12" :> <<"1", "2">>
    @@ "Unknown7" :> <<"U", "n", "k", "n", "o", "w", "n", "7">>

\* str.isalpha, on one character
IsAlpha(c) == c \in {"A", "B", "U", "n", "k", "o", "w"}

\* ''.join(cs)
RECURSIVE Join(_)
Join(cs) == IF cs = <<>> THEN "" ELSE Head(cs) \o Join(Tail(cs))

\* zone_mapping[ward_id]: the letters of the ward id behind "Zone_", or
\* "Zone_Unknown" for a ward id without a letter
ZoneOf(ward_id) ==
    LET zone_letter == Join(SelectSeq(Chars[ward_id], IsAlpha))
    IN  IF zone_letter # "" THEN "Zone_" \o zone_letter ELSE "Zone_Unknown"

\* ward_preparedness['zone'] = ward_preparedness['ward_id'].map(zone_mapping):
\* the frame the caller passed gets the column
WithZone(ward_preparedness) ==
    [k \in 1..Len(ward_preparedness) |->
        ("zone" :> ZoneOf(ward_preparedness[k].ward_id)) @@ ward_preparedness[k]]

\* ZoneGroup putting every ward of the frame into every zone
ZoneGroup_WholeFrame(df, zone_name) == df

\* one group of ward_preparedness.groupby('zone'): the rows of the zone, in
\* frame order
ZoneGroup(df, zone_name) == SelectSeq(df, LAMBDA r : r.zone = zone_name)

\* zone_df[column].sum()
RECURSIVE ColumnSum(_, _)
ColumnSum(rows, column) ==
    IF rows = <<>> THEN 0
    ELSE Head(rows)[column] + ColumnSum(Tail(rows), column)

\* round(zone_df[column].mean(), 1), in tenths
RoundedMean(rows, column) == RoundDiv(ColumnSum(rows, column), Len(rows))

\* zone_df[column].min()
ColumnMin(rows, column) ==
    CHOOSE v \in {rows[k][column] : k \in 1..Len(rows)} :
        \A k \in 1..Len(rows) : v <= rows[k][column]

\* zone_df[column].max()
ColumnMax(rows, column) ==
    CHOOSE v \in {rows[k][column] : k \in 1..Len(rows)} :
        \A k \in 1..Len(rows) : v >= rows[k][column]

\* the component names in sorted (alphabetical) order
SortedNames ==
    <<"Infrastructure", "Maintenance", "Resilience", "Resources", "Vulnerability">>

\* Mode taking the last of the most frequent values in sorted order
Mode_LastSorted(values) ==
    LET count(v) == Cardinality({k \in 1..Len(values) : values[k] = v})
        modes == {values[k] : k \in {i \in 1..Len(values) :
                      \A j \in 1..Len(values) : count(values[i]) >= count(values[j])}}
        last == CHOOSE i \in 1..Len(SortedNames) :
                    /\ SortedNames[i] \in modes
                    /\ \A j \in (i + 1)..Len(SortedNames) : SortedNames[j] \notin modes
    IN  SortedNames[last]

\* zone_df['weakest_component'].mode()[0]: mode() returns the most frequent
\* values sorted, so [0] is the first of them in sorted order
Mode(values) ==
    LET count(v) == Cardinality({k \in 1..Len(values) : values[k] = v})
        modes == {values[k] : k \in {i \in 1..Len(values) :
                      \A j \in 1..Len(values) : count(values[i]) >= count(values[j])}}
        first == CHOOSE i \in 1..Len(SortedNames) :
                     /\ SortedNames[i] \in modes
                     /\ \A j \in 1..(i - 1) : SortedNames[j] \notin modes
    IN  SortedNames[first]

\* ZoneRecords spreading the scores of the frame's first zone into the
\* statistics of every zone
ZoneRecords_AllWards(df, zone_name) ==
    LET zone_df == df
        scores == [k \in 1..Len(zone_df) |-> zone_df[k].preparedness_score]
    IN  {[zone |-> zone_name,
          avg_preparedness |-> avg,
          min_preparedness |-> ColumnMin(zone_df, "preparedness_score"),
          max_preparedness |-> ColumnMax(zone_df, "preparedness_score"),
          ward_count |-> Len(zone_df),
          critical_wards |-> Cardinality({k \in 1..Len(scores) : scores[k] < 300}),
          poor_wards |-> Cardinality({k \in 1..Len(scores) : scores[k] < 450}),
          top_weakness |->
              Mode([k \in 1..Len(zone_df) |-> zone_df[k].weakest_component]),
          avg_infra_capacity |-> infra,
          avg_historical_resilience |-> resilience] :
         avg \in RoundedMean(zone_df, "preparedness_score"),
         infra \in RoundedMean(zone_df, "infra_capacity"),
         resilience \in RoundedMean(zone_df, "historical_resilience")}

\* the summary of one zone: the record the loop over the groups appends (the
\* rounded means may come out either way at a tie)
ZoneRecords(df, zone_name) ==
    LET zone_df == ZoneGroup(df, zone_name)
        scores == [k \in 1..Len(zone_df) |-> zone_df[k].preparedness_score]
    IN  {[zone |-> zone_name,
          avg_preparedness |-> avg,
          min_preparedness |-> ColumnMin(zone_df, "preparedness_score"),
          max_preparedness |-> ColumnMax(zone_df, "preparedness_score"),
          ward_count |-> Len(zone_df),
          critical_wards |-> Cardinality({k \in 1..Len(scores) : scores[k] < 300}),
          poor_wards |-> Cardinality({k \in 1..Len(scores) : scores[k] < 450}),
          top_weakness |->
              Mode([k \in 1..Len(zone_df) |-> zone_df[k].weakest_component]),
          avg_infra_capacity |-> infra,
          avg_historical_resilience |-> resilience] :
         avg \in RoundedMean(zone_df, "preparedness_score"),
         infra \in RoundedMean(zone_df, "infra_capacity"),
         resilience \in RoundedMean(zone_df, "historical_resilience")}

\* zone_results: one summary per zone of the frame.  groupby yields the
\* groups in key order; sort_values follows, so any one order serves here.
ZoneResults(df) ==
    LET zones == {df[k].zone : k \in 1..Len(df)}
        n == Cardinality(zones)
        order == CHOOSE s \in [1..n -> zones] : \A z \in zones : \E k \in 1..n : s[k] = z
    IN  Product([k \in 1..n |-> ZoneRecords(df, order[k])])

\* what a call of calculate_zone_preparedness(ward_preparedness) can end
\* with: the summaries sorted by avg_preparedness, lowest first, or the
\* KeyError of sorting a frame without columns when there is no zone
ZoneOutcomes(ward_preparedness) ==
    IF Len(ward_preparedness) = 0
    THEN {[status |-> "KeyError", df |-> <<>>]}
    ELSE {[status |-> "ok", df |-> df] :
             df \in UNION {SortValues(rows, "avg_preparedness", TRUE) :
                               rows \in ZoneResults(WithZone(ward_preparedness))}}

\* calculate_zone_preparedness(ward_preparedness), on the frame that
\* calculate_monsoon_preparedness returned
CalculateZonePreparedness ==
    /\ prep_out.status = "ok"
    /\ zone_out.status = "none"
    /\ zone_out' \in ZoneOutcomes(prep_out.df)
    /\ prep_out' = [prep_out EXCEPT !.df = WithZone(prep_out.df)]
    /\ UNCHANGED <<inputs, mpi_out, outside>>

\* the rows a frame can hold for ward w: total score, weakest component,
\* infra_capacity and historical_resilience (scores in tenths)
ZoneRowOptions ==
    "A1" :> {<<200, "Resilience", 50, 100>>, <<449, "Infrastructure", 0, 210>>}
    @@ "A2" :> {<<400, "Infrastructure", 20, 250>>, <<200, "Vulnerability", 75, 60>>}
    @@ "3A" :> {<<600, "Maintenance", 300, 150>>, <<400, "Resilience", 121, 0>>}
    @@ "B-1" :> {<<300, "Resources", 100, 100>>, <<700, "Infrastructure", 10, 350>>}
    @@ "12" :> {<<100, "Vulnerability", 0, 0>>}
    @@ "Unknown7" :> {<<500, "Infrastructure", 40, 200>>}

ZoneRows ==
    {[ward_id |-> w, preparedness_score |-> o[1], weakest_component |-> o[2],
      infra_capacity |-> o[3], historical_resilience |-> o[4]] :
        w \in DOMAIN ZoneRowOptions, o \in UNION {ZoneRowOptions[v] : v \in DOMAIN ZoneRowOptions}}

\* the frames: up to MaxZoneWards rows, no ward id twice
ZoneFrames ==
    UNION {{f \in [1..n -> {r \in ZoneRows :
                                <<r.preparedness_score, r.weakest_component,
                                  r.infra_capacity, r.historical_resilience>>
                                    \in ZoneRowOptions[r.ward_id]}] :
               \A j, k \in 1..n : j # k => f[j].ward_id # f[k].ward_id} :
           n \in 0..MaxZoneWards}

\* a calculator that has loaded nothing
NoWards == [is_none |-> TRUE, index |-> <<>>, rows |-> EmptyMap]

NoHistory == [is_none |-> TRUE, rows |-> EmptyMap]

NoRain == [rain_1h |-> 0, rain_3h |-> 0, rain_forecast_3h |-> 0]

\* calculate_zone_preparedness is about to be called on a frame; the method
\* reads nothing of the calculator
ZoneInit ==
    \E frame \in ZoneFrames :
        /\ prep_out = [status |-> "ok", df |-> frame]
        /\ zone_out = NotCalled
        /\ mpi_out = NotCalled
        /\ ward_static = NoWards
        /\ ward_historical = NoHistory
        /\ civic_loaded = FALSE
        /\ civic_complaints = NoTable
        /\ pothole_by_ward = NoTable
        /\ sewerage_growth_rate = 0
        /\ rainfall_features = NoRain
        /\ predictor = EmptyMap
        /\ calc_model = FALSE
        /\ files = NoFiles
        /\ pc = "idle"
        /\ written = EmptyMap
        /\ service = ServiceDown
        /\ response = NoResponse

ZoneNext == CalculateZonePreparedness

ZoneSpec == ZoneInit /\ [][ZoneNext]_vars

\* ------------------------------------- main() of calculate_mpi.py, service
\* the most wards the ward data on disk holds
MaxWards == 2

\* the ward ids the data on disk can hold
SysWardIds == {"A1", "A2", "12"}

\* the input profile of each ward
Profile == "A1" :> "mid" @@ "A2" :> "hi" @@ "12" :> "scenario"

\* the ward tables DataPipeline.get_ward_data() can deliver: up to MaxWards
\* wards in any order, ward A1 with or without a historical row
WardTables ==
    UNION {{[ok |-> TRUE,
             index |-> idx,
             static |-> [w \in {idx[k] : k \in 1..n} |->
                            StaticFeats(InfraBase(Profile[w]), VulnBase(Profile[w]),
                                        ResBase(Profile[w]))],
             historical |-> [w \in {idx[k] : k \in 1..n} \ missing |->
                                HistBase(Profile[w]).feats]] :
              idx \in {f \in [1..n -> SysWardIds] :
                          \A j, k \in 1..n : j # k => f[j] # f[k]},
              missing \in {{}, {"A1"}}} :
           n \in 0..MaxWards}

\* the ward data on disk: tables, or nothing DataPipeline can initialize from
WardSources == {NoFiles.wards} \cup WardTables

\* the civic files on disk: sewerage_complaints_yearly.csv (its growth
\* rate), pothole_reports.csv (grouped by ward_name) and
\* civic_complaints_ward.csv; NoTable stands for a missing file
CivicFiles ==
    {[sewerage |-> Opt(FALSE, 0), pothole |-> NoTable, complaints |-> NoTable],
     [sewerage |-> Opt(TRUE, 100),
      pothole |-> Table("Rohini" :> PotholeRow(3, 1)),
      complaints |-> Table("A1" :> CivicRow(7, 11))],
     [sewerage |-> Opt(FALSE, 0),
      pothole |-> Table("Rohini" :> PotholeRow(MaxPotholes, 4)),
      complaints |-> Table([w \in SysWardIds |-> CivicRow(60, 1)])]}

\* what get_real_time_rainfall() returns: the zero default or a reading
Weather == {NoRain, [rain_1h |-> 20000, rain_3h |-> 70000, rain_forecast_3h |-> 0]}

\* the pairs np.random.poisson(15) and np.random.poisson(12) can draw for a
\* ward; a run is taken to draw the same pair for each of its wards
PoissonDraws == {<<0, 0>>, <<15, 20>>}

\* a new MPICalculator, the service not yet started, and the files on disk
SystemInit ==
    \E m \in {"ok", "missing", "corrupt"}, t \in WardSources,
       c \in CivicFiles, r \in Weather :
        /\ files = [model |-> m, wards |-> t, sewerage |-> c.sewerage,
                    pothole |-> c.pothole, complaints |-> c.complaints]
        /\ rainfall_features = r
        /\ predictor = [w \in SysWardIds |-> ProbBase(Profile[w])]
        /\ calc_model = FALSE
        /\ ward_static = NoWards
        /\ ward_historical = NoHistory
        /\ civic_loaded = FALSE
        /\ civic_complaints = NoTable
        /\ pothole_by_ward = NoTable
        /\ sewerage_growth_rate = 0
        /\ mpi_out = NotCalled
        /\ prep_out = NotCalled
        /\ zone_out = NotCalled
        /\ pc = "start"
        /\ written = EmptyMap
        /\ service = ServiceDown
        /\ response = NoResponse

\* the state of the calculator's tables and of its calls
calculator == <<ward_static, ward_historical, civic_loaded, civic_complaints,
                pothole_by_ward, sewerage_growth_rate, mpi_out, prep_out,
                zone_out>>

\* main(): if not calc.load_model(): return.  load_model returns False for a
\* missing file and for one that fails to load.
MainLoadModel ==
    /\ pc = "start"
    /\ IF files.model = "ok"
       THEN calc_model' = TRUE /\ pc' = "load_ward_data"
       ELSE calc_model' = FALSE /\ pc' = "returned"
    /\ UNCHANGED <<calculator, files, rainfall_features, predictor, written,
                   service, response>>

\* main(): if not calc.load_ward_data(): print(...), and go on.
\* load_ward_data sets both tables, or catches the exception and sets none.
MainLoadWardData ==
    /\ pc = "load_ward_data"
    /\ IF files.wards.ok
       THEN /\ ward_static' = [is_none |-> FALSE, index |-> files.wards.index,
                               rows |-> files.wards.static]
            /\ ward_historical' = [is_none |-> FALSE,
                                   rows |-> files.wards.historical]
       ELSE UNCHANGED <<ward_static, ward_historical>>
    /\ pc' = "load_civic_complaints"
    /\ UNCHANGED <<civic_loaded, civic_complaints, pothole_by_ward,
                   sewerage_growth_rate, mpi_out, prep_out, zone_out,
                   calc_model, files, rainfall_features, predictor, written,
                   service, response>>

\* the complaints table load_civic_complaints makes up when
\* civic_complaints_ward.csv is missing: a copy of ward_historical with
\* drainage_complaints = hist_flood_freq * 20 + poisson(15) and
\* sewerage_complaints = poisson(12) * (1 + growth), draw[w] being the two
\* draws of ward w
GeneratedComplaints(draw, growth) ==
    Table([w \in DOMAIN ward_historical.rows |->
              CivicRow((draw[w][2] * (100 + growth)) \div 100,
                       ward_historical.rows[w].hist_flood_freq * 2 + draw[w][1])])

\* main(): calc.load_civic_complaints().  The growth rate and the pothole
\* table are set first; without the complaints file the table is generated
\* from ward_historical, which raises AttributeError when that is None.
MainLoadCivicComplaints ==
    /\ pc = "load_civic_complaints"
    /\ civic_loaded' = TRUE
    /\ sewerage_growth_rate' = IF files.sewerage.has THEN files.sewerage.v ELSE 75
    /\ pothole_by_ward' = files.pothole
    /\ IF ~files.complaints.is_none
       THEN civic_complaints' = files.complaints /\ pc' = "calculate_mpi"
       ELSE IF ward_historical.is_none
       THEN civic_complaints' = civic_complaints /\ pc' = "crashed"
       ELSE /\ \E d \in PoissonDraws :
                   civic_complaints' =
                       GeneratedComplaints([w \in DOMAIN ward_historical.rows |-> d],
                                           sewerage_growth_rate')
            /\ pc' = "calculate_mpi"
    /\ UNCHANGED <<ward_static, ward_historical, mpi_out, prep_out, zone_out,
                   calc_model, files, rainfall_features, predictor, written,
                   service, response>>

\* main(): mpi_df = calc.calculate_mpi()
MainCalculateMPI ==
    /\ pc = "calculate_mpi"
    /\ mpi_out' \in MPIOutcomes
    /\ pc' = IF mpi_out'.status = "ok" THEN "generate_mpi_report" ELSE "crashed"
    /\ UNCHANGED <<inputs, prep_out, zone_out, calc_model, files, written,
                   service, response>>

\* main(): calc.generate_mpi_report(mpi_df, save_path=output_path)
MainGenerateReport ==
    /\ pc = "generate_mpi_report"
    /\ written' = ("mpi_scores_latest.csv" :> mpi_out.df) @@ written
    /\ pc' = "calculate_monsoon_preparedness"
    /\ UNCHANGED <<inputs, mpi_out, prep_out, zone_out, calc_model, files,
                   service, response>>

\* main(): preparedness_df = calc.calculate_monsoon_preparedness();
\* preparedness_df.to_csv(prep_output_path)
MainCalculatePreparedness ==
    /\ pc = "calculate_monsoon_preparedness"
    /\ prep_out' \in PrepOutcomes
    /\ IF prep_out'.status = "ok"
       THEN /\ written' = ("monsoon_preparedness_latest.csv" :> prep_out'.df)
                           @@ written
            /\ pc' = "calculate_zone_preparedness"
       ELSE written' = written /\ pc' = "crashed"
    /\ UNCHANGED <<inputs, mpi_out, zone_out, calc_model, files, service,
                   response>>

\* main(): zone_prep_df = calc.calculate_zone_preparedness(preparedness_df);
\* zone_prep_df.to_csv(zone_output_path)
MainCalculateZones ==
    /\ pc = "calculate_zone_preparedness"
    /\ zone_out' \in ZoneOutcomes(prep_out.df)
    /\ prep_out' = [prep_out EXCEPT !.df = WithZone(prep_out.df)]
    /\ IF zone_out'.status = "ok"
       THEN /\ written' = ("zone_preparedness_latest.csv" :> zone_out'.df)
                           @@ written
            /\ pc' = "save_frontend"
       ELSE written' = written /\ pc' = "crashed"
    /\ UNCHANGED <<inputs, mpi_out, calc_model, files, service, response>>

\* main(): the priority zones are printed and ward_risk.json is written,
\* one entry per row of mpi_df
MainSaveFrontend ==
    /\ pc = "save_frontend"
    /\ written' = ("ward_risk.json" :>
                      [k \in 1..Len(mpi_out.df) |->
                          [ward_id |-> mpi_out.df[k].ward_id,
                           risk_score |-> mpi_out.df[k].mpi_score,
                           rain_mm |-> mpi_out.df[k].current_rain_mm
                                       + mpi_out.df[k].forecast_rain_mm,
                           status |-> mpi_out.df[k].risk_level]])
                  @@ written
    /\ pc' = "done"
    /\ UNCHANGED <<inputs, mpi_out, prep_out, zone_out, calc_model, files,
                   service, response>>

\* the script is run again after a run that completed: main() starts with a
\* new MPICalculator, the files on disk are those the runs before left
MainRerun ==
    /\ pc = "done"
    /\ pc' = "start"
    /\ calc_model' = FALSE
    /\ ward_static' = NoWards
    /\ ward_historical' = NoHistory
    /\ civic_loaded' = FALSE
    /\ civic_complaints' = NoTable
    /\ pothole_by_ward' = NoTable
    /\ sewerage_growth_rate' = 0
    /\ mpi_out' = NotCalled
    /\ prep_out' = NotCalled
    /\ zone_out' = NotCalled
    /\ UNCHANGED <<files, rainfall_features, predictor, written, service,
                   response>>

\* startup_event(): the model is loaded when its file exists (a file that
\* fails to load makes startup fail), the ward tables are cached as dicts,
\* or as {} when the pipeline fails
Startup ==
    /\ service.state = "down"
    /\ service' =
           IF files.model = "corrupt"
           THEN [service EXCEPT !.state = "failed"]
           ELSE [state |-> "up",
                 model |-> (files.model = "ok"),
                 ward_static_data |->
                     IF files.wards.ok
                     THEN [index |-> files.wards.index, rows |-> files.wards.static]
                     ELSE NoData,
                 ward_historical_data |->
                     IF files.wards.ok
                     THEN [index |-> SelectSeq(files.wards.index,
                               LAMBDA w : w \in DOMAIN files.wards.historical),
                           rows |-> files.wards.historical]
                     ELSE NoData]
    /\ UNCHANGED <<inputs, mpi_out, prep_out, zone_out, calc_model, files, pc,
                   written, response>>

\* HTTPException(status_code, detail), raised before any feature vector is
\* built; ward_id is the ward the request named, if it named one
Failure(op, ward_id, code, detail) ==
    [op |-> op, ward_id |-> ward_id, code |-> code, detail |-> detail,
     vectors |-> <<>>, body |-> <<>>]

\* the fields a HealthResponse must have (the timestamp is left out of every
\* health body here)
HealthResponseFields == {"status", "model_loaded", "wards_count"}

\* the health_check defined first, the handler registered for GET /
RootHealthCheck ==
    [status |-> "healthy",
     model_loaded |-> service.model,
     wards_count |-> Len(service.ward_static_data.index)]

\* the health_check defined last, the handler registered for GET /health:
\* the module's name health_check is bound to this one
HealthCheck == [status |-> "healthy"]

\* the answer of a route with response_model=HealthResponse whose handler
\* returned result: a result lacking a required field fails the response
\* validation
AsHealthResponse(op, result) ==
    IF HealthResponseFields \subseteq DOMAIN result
    THEN [op |-> op, ward_id |-> "", code |-> 200, detail |-> "",
          vectors |-> <<>>, body |-> <<result>>]
    ELSE Failure(op, "", 500, "Internal Server Error")

\* GET /
RootHealth ==
    /\ service.state = "up"
    /\ response' = AsHealthResponse("root", RootHealthCheck)
    /\ UNCHANGED <<inputs, mpi_out, prep_out, zone_out, calc_model, files, pc,
                   written, service>>

\* GET /api/health: return await health_check()
ApiHealth ==
    /\ service.state = "up"
    /\ response' = AsHealthResponse("api_health", HealthCheck)
    /\ UNCHANGED <<inputs, mpi_out, prep_out, zone_out, calc_model, files, pc,
                   written, service>>

\* the requests sent to POST /predict: rainfall in mm, water_logging_reports,
\* pothole_count; the request model accepts any float and any two integers
SimpleRequests == {<<0, 0, 0>>, <<50, 25, 10>>, <<150, 60, 30>>, <<-50, 0, 0>>}

\* risk level of POST /predict, the score in ten-thousandths
SimpleRiskLevel(mpi_score) ==
    IF mpi_score >= 7500 THEN "Critical"
    ELSE IF mpi_score >= 5000 THEN "High"
    ELSE IF mpi_score >= 2500 THEN "Moderate"
    ELSE "Low"

\* SimplePredictResponses answering although no model is loaded
SimplePredictResponses_NoModelCheck(rainfall, water_logging_reports, pothole_count) ==
    LET mpi_score == Min(rainfall * 50, 5000)
                     + Min(water_logging_reports * 60, 3000)
                     + Min(pothole_count * 100, 2000)
    IN  {[op |-> "predict", ward_id |-> "", code |-> 200, detail |-> "", vectors |-> <<>>,
          body |-> <<[mpi_score |-> rounded,
                      risk_level |-> SimpleRiskLevel(mpi_score)]>>] :
            rounded \in RoundDiv(mpi_score, 100)}

\* POST /predict: the answers simple_predict can give (mpi_score in
\* hundredths)
SimplePredictResponses(rainfall, water_logging_reports, pothole_count) ==
    LET mpi_score == Min(rainfall * 50, 5000)
                     + Min(water_logging_reports * 60, 3000)
                     + Min(pothole_count * 100, 2000)
    IN  IF ~service.model
        THEN {Failure("predict", "", 503, "Model not loaded")}
        ELSE {[op |-> "predict", ward_id |-> "", code |-> 200, detail |-> "", vectors |-> <<>>,
               body |-> <<[mpi_score |-> rounded,
                           risk_level |-> SimpleRiskLevel(mpi_score)]>>] :
                 rounded \in RoundDiv(mpi_score, 100)}

\* POST /predict
SimplePredict ==
    /\ service.state = "up"
    /\ \E q \in SimpleRequests :
           response' \in SimplePredictResponses(q[1], q[2], q[3])
    /\ UNCHANGED <<inputs, mpi_out, prep_out, zone_out, calc_model, files, pc,
                   written, service>>

\* GetWardInfoResponses answering for a ward the static table does not hold
GetWardInfoResponses_NoLookup(ward_id) ==
    {[op |-> "get_ward_info", ward_id |-> ward_id, code |-> 200, detail |-> "",
      vectors |-> <<>>,
      body |-> <<[ward_id |-> ward_id,
                  static_features |->
                      Get(service.ward_static_data.rows, ward_id, EmptyMap),
                  historical_features |->
                      Get(service.ward_historical_data.rows, ward_id, EmptyMap)]>>]}

\* GET /api/wards/{ward_id}: the answers get_ward_info can give; the model is
\* not looked at, and a ward without a historical row gets {}
GetWardInfoResponses(ward_id) ==
    IF ward_id \notin DOMAIN service.ward_static_data.rows
    THEN {Failure("get_ward_info", ward_id, 404, "Ward not found")}
    ELSE {[op |-> "get_ward_info", ward_id |-> ward_id, code |-> 200, detail |-> "",
           vectors |-> <<>>,
           body |-> <<[ward_id |-> ward_id,
                       static_features |-> service.ward_static_data.rows[ward_id],
                       historical_features |->
                           Get(service.ward_historical_data.rows, ward_id,
                               EmptyMap)]>>]}

\* GET /api/wards/{ward_id}
GetWardInfo ==
    /\ service.state = "up"
    /\ \E ward_id \in {"A1", "ZZ"} :
           response' \in GetWardInfoResponses(ward_id)
    /\ UNCHANGED <<inputs, mpi_out, prep_out, zone_out, calc_model, files, pc,
                   written, service>>

\* the historical features of a ward without a historical row
HistDefaults ==
    [hist_flood_freq |-> 0, monsoon_risk_score |-> 50, complaint_baseline |-> 5]

\* ward_historical_data.get(ward_id, {...defaults...})
ServiceHistFeats(ward_id) ==
    Get(service.ward_historical_data.rows, ward_id, HistDefaults)

\* one WardRisk: the feature vector was made of hist_feats, and the model
\* answered the probability
WardRisk(ward_id, rainfall) ==
    [ward_id |-> ward_id, probability |-> predictor[ward_id],
     rain_1h |-> rainfall.rain_1h, rain_3h |-> rainfall.rain_3h]

\* PredictWardResponses looking the ward up before looking at the model
PredictWardResponses_WardFirst(ward_id, rainfall) ==
    IF ward_id \notin DOMAIN service.ward_static_data.rows
    THEN {Failure("predict_ward", ward_id, 404, "Ward not found")}
    ELSE IF ~service.model
    THEN {Failure("predict_ward", ward_id, 503, "Model not loaded")}
    ELSE {[op |-> "predict_ward", ward_id |-> ward_id, code |-> 200, detail |-> "",
           vectors |-> <<[ward_id |-> ward_id,
                          hist_feats |-> ServiceHistFeats(ward_id)]>>,
           body |-> <<WardRisk(ward_id, rainfall)>>]}

\* POST /api/predict/ward: the answers predict_ward can give
PredictWardResponses(ward_id, rainfall) ==
    IF ~service.model
    THEN {Failure("predict_ward", ward_id, 503, "Model not loaded")}
    ELSE IF ward_id \notin DOMAIN service.ward_static_data.rows
    THEN {Failure("predict_ward", ward_id, 404, "Ward not found")}
    ELSE {[op |-> "predict_ward", ward_id |-> ward_id, code |-> 200, detail |-> "",
           vectors |-> <<[ward_id |-> ward_id,
                          hist_feats |-> ServiceHistFeats(ward_id)]>>,
           body |-> <<WardRisk(ward_id, rainfall)>>]}

\* POST /api/predict/ward
PredictWard ==
    /\ service.state = "up"
    /\ \E ward_id \in SysWardIds \cup {"ZZ"}, rainfall \in Weather \ {NoRain} :
           response' \in PredictWardResponses(ward_id, rainfall)
    /\ UNCHANGED <<inputs, mpi_out, prep_out, zone_out, calc_model, files, pc,
                   written, service>>

\* results.sort(key=lambda x: x.probability, reverse=True): list.sort is
\* stable, rows of equal probability keep their order
SortByProbability(rows) ==
    LET at(s, r) == CHOOSE k \in 1..Len(s) : s[k] = r
    IN  {s \in SortValues(rows, "probability", FALSE) :
            \A j, k \in 1..Len(rows) :
                (j < k /\ rows[j].probability = rows[k].probability)
                    => at(s, rows[j]) < at(s, rows[k])}

\* POST /api/predict/all: the answers predict_all_wards can give
PredictAllResponses(rainfall) ==
    LET idx == service.ward_static_data.index
    IN  IF ~service.model
        THEN {Failure("predict_all", "", 503, "Model not loaded")}
        ELSE IF Len(idx) = 0
        THEN {Failure("predict_all", "", 503, "Ward data not loaded")}
        ELSE {[op |-> "predict_all", ward_id |-> "", code |-> 200, detail |-> "",
               vectors |-> [k \in 1..Len(idx) |->
                               [ward_id |-> idx[k],
                                hist_feats |-> ServiceHistFeats(idx[k])]],
               body |-> wards] :
                 wards \in SortByProbability(
                     [k \in 1..Len(idx) |-> WardRisk(idx[k], rainfall)])}

\* POST /api/predict/all
PredictAllWards ==
    /\ service.state = "up"
    /\ \E rainfall \in {NoRain} : response' \in PredictAllResponses(rainfall)
    /\ UNCHANGED <<inputs, mpi_out, prep_out, zone_out, calc_model, files, pc,
                   written, service>>

\* the summary get_mpi_summary makes of the rows of the scores file: the
\* counts per risk level and the mean (as sum over count), minimum and
\* maximum of mpi_score, in tenths
MpiSummary(df) ==
    [total_wards |-> Len(df),
     risk_distribution |->
         [level \in {"Low", "Moderate", "High", "Critical"} |->
             Cardinality({k \in 1..Len(df) : df[k].risk_level = level})],
     mpi_stats |-> [mean |-> [num |-> ColumnSum(df, "mpi_score"), den |-> Len(df)],
                    min |-> ColumnMin(df, "mpi_score"),
                    max |-> ColumnMax(df, "mpi_score")]]

\* GET /api/mpi-summary: the answer get_mpi_summary gives.  The
\* HTTPException(404) for a missing file is raised inside the try block, and
\* "except Exception" catches it and raises HTTPException(500) in its place.
GetMpiSummaryResponse ==
    IF "mpi_scores_latest.csv" \notin DOMAIN written
    THEN Failure("mpi_summary", "", 500, "Error")
    ELSE [op |-> "mpi_summary", ward_id |-> "", code |-> 200, detail |-> "",
          vectors |-> <<>>,
          body |-> <<MpiSummary(written["mpi_scores_latest.csv"])>>]

\* GET /api/mpi-summary
GetMpiSummary ==
    /\ service.state = "up"
    /\ response' = GetMpiSummaryResponse
    /\ UNCHANGED <<inputs, mpi_out, prep_out, zone_out, calc_model, files, pc,
                   written, service>>

SystemNext ==
    \/ MainLoadModel \/ MainLoadWardData \/ MainLoadCivicComplaints
    \/ MainCalculateMPI \/ MainGenerateReport \/ MainCalculatePreparedness
    \/ MainCalculateZones \/ MainSaveFrontend
    \/ Startup \/ RootHealth \/ ApiHealth
    \/ SimplePredict \/ GetWardInfo \/ PredictWard \/ PredictAllWards
    \/ GetMpiSummary

SystemSpec == SystemInit /\ [][SystemNext]_vars

\* the script alone, run time after time on the same files
ScriptNext ==
    \/ MainLoadModel \/ MainLoadWardData \/ MainLoadCivicComplaints
    \/ MainCalculateMPI \/ MainGenerateReport \/ MainCalculatePreparedness
    \/ MainCalculateZones \/ MainSaveFrontend \/ MainRerun

ScriptSpec == SystemInit /\ [][ScriptNext]_vars

\* ----------------------------------------------------------------- claims
\* the rows a completed calculate_mpi returned
MPIDf == IF mpi_out.status = "ok"
         THEN {mpi_out.df[k] : k \in 1..Len(mpi_out.df)} ELSE {}

\* the rows a completed calculate_monsoon_preparedness returned
PrepDf == IF prep_out.status = "ok"
          THEN {prep_out.df[k] : k \in 1..Len(prep_out.df)} ELSE {}

\* the sum of the five contributions a returned row carries (tenths)
ContributionSum(r) ==
    r.model_contribution + r.rainfall_contribution + r.historical_contribution
    + r.infrastructure_contribution + r.vulnerability_contribution

\* C1 as stated: the total of every returned record lies in [0,100] and is
\* exactly the sum of the five component contributions of that record.
C1_RecordTotalIsSumOfContributions ==
    \A r \in MPIDf :
        /\ r.mpi_score >= 0 /\ r.mpi_score <= 1000
        /\ r.mpi_score = ContributionSum(r)

\* C1 amended: the computed total lies in [0,100] and is exactly the sum of
\* the five computed components; the record carries the total and each
\* component rounded to one decimal on its own, so its mpi_score stays in
\* [0,100] and is within 0.2 of the sum of its five contributions.
C1_TotalIsSumOfComputedComponents ==
    \A r \in MPIDf :
        /\ r.mpi >= 0 /\ r.mpi <= 100 * Unit
        /\ r.model_score >= 0 /\ r.rain_score >= 0 /\ r.hist_score >= 0
        /\ r.infra_score >= 0 /\ r.vuln_score >= 0
        /\ r.mpi = r.model_score + r.rain_score + r.hist_score
                   + r.infra_score + r.vuln_score
        /\ r.mpi_score >= 0 /\ r.mpi_score <= 1000
        /\ r.mpi_score - ContributionSum(r) \in -2..2

\* a record whose rounded total differs from the sum of its rounded parts
C1_Witness ==
    \E r \in MPIDf : r.mpi > 0 /\ r.mpi_score # ContributionSum(r)

\* C2: the preparedness total of every ward lies in [0,100].
C2_PreparednessTotalInRange ==
    \A r \in PrepDf : r.preparedness >= 0 /\ r.preparedness <= 100 * Unit

\* C3: each preparedness component is non-negative and at most its cap
\* (30, 25, 20, 15, 10), and the total is the sum of the five.
C3_PreparednessComponentCaps ==
    \A r \in PrepDf :
        LET c == r.component_scores
        IN  /\ c.Infrastructure >= 0 /\ c.Infrastructure <= 30 * Unit
            /\ c.Resilience >= 0 /\ c.Resilience <= 25 * Unit
            /\ c.Resources >= 0 /\ c.Resources <= 20 * Unit
            /\ c.Vulnerability >= 0 /\ c.Vulnerability <= 15 * Unit
            /\ c.Maintenance >= 0 /\ c.Maintenance <= 10 * Unit
            /\ r.preparedness = c.Infrastructure + c.Resilience + c.Resources
                                + c.Vulnerability + c.Maintenance

\* C4: the risk level is decided by the total alone: below 30 Low, from 30
\* below 50 Moderate, from 50 below 70 High, from 70 Critical.
C4_RiskLevelByTotal ==
    \A r \in MPIDf :
        /\ (r.mpi < 30 * Unit) => r.risk_level = "Low"
        /\ (r.mpi >= 30 * Unit /\ r.mpi < 50 * Unit) => r.risk_level = "Moderate"
        /\ (r.mpi >= 50 * Unit /\ r.mpi < 70 * Unit) => r.risk_level = "High"
        /\ (r.mpi >= 70 * Unit) => r.risk_level = "Critical"

\* a ward whose total is exactly 30 and is classified Moderate
C4_Witness ==
    \E r \in MPIDf : r.mpi = 30 * Unit /\ r.risk_level = "Moderate"

\* the one recommendation each preparedness level carries
LevelRecommendation ==
    [Excellent |-> "Well-prepared. Maintain current standards.",
     Good |-> "Adequate preparation. Minor improvements needed.",
     Moderate |-> "Significant gaps. Prioritize drainage maintenance.",
     Poor |-> "Critical improvements needed before monsoon.",
     Critical |-> "Emergency intervention required. High failure risk."]

\* C5: the preparedness level is Excellent from 75, Good from 60, Moderate
\* from 45, Poor from 30 and Critical below, and the recommendation of a row
\* is the one string of its level.
C5_PrepLevelAndRecommendation ==
    \A r \in PrepDf :
        /\ (r.preparedness >= 75 * Unit) => r.preparedness_level = "Excellent"
        /\ (r.preparedness >= 60 * Unit /\ r.preparedness < 75 * Unit)
               => r.preparedness_level = "Good"
        /\ (r.preparedness >= 45 * Unit /\ r.preparedness < 60 * Unit)
               => r.preparedness_level = "Moderate"
        /\ (r.preparedness >= 30 * Unit /\ r.preparedness < 45 * Unit)
               => r.preparedness_level = "Poor"
        /\ (r.preparedness < 30 * Unit) => r.preparedness_level = "Critical"
        /\ r.recommendation = LevelRecommendation[r.preparedness_level]

\* a ward whose preparedness total is exactly 75 and is rated Excellent
C5_Witness ==
    \E r \in PrepDf :
        /\ r.preparedness = 75 * Unit
        /\ r.preparedness_level = "Excellent"
        /\ r.recommendation = "Well-prepared. Maintain current standards."

\* the rain totals (rain_3h + rain_forecast_3h) of the input grid
RainTotals == {v.rain_3h + v.rain_forecast_3h : v \in RainFull}

\* C6: the rainfall component is 0 below 5 mm, 5 from 5, 10 from 15, 15 from
\* 35 and 20 from 65 mm of rain_3h + rain_forecast_3h; it never exceeds 20
\* and no smaller rain total scores higher.
C6_RainfallBins ==
    \A r \in MPIDf :
        LET s == rainfall_features.rain_3h + rainfall_features.rain_forecast_3h
        IN  /\ (s < 5000) => r.rain_score = 0
            /\ (s >= 5000 /\ s < 15000) => r.rain_score = 5 * Unit
            /\ (s >= 15000 /\ s < 35000) => r.rain_score = 10 * Unit
            /\ (s >= 35000 /\ s < 65000) => r.rain_score = 15 * Unit
            /\ (s >= 65000) => r.rain_score = 20 * Unit
            /\ r.rain_score <= 20 * Unit
            /\ \A t \in RainTotals : t <= s => RainScore(t) <= r.rain_score

\* a ward scored under exactly 5.0 mm, which scores 5
C6_Witness ==
    \E r \in MPIDf :
        /\ rainfall_features.rain_3h + rainfall_features.rain_forecast_3h = 5000
        /\ r.rain_score = 5 * Unit

\* C7: the historical component is min(15, hist_flood_freq * 2.5): 0 at
\* frequency 0, hist_flood_freq * 2.5 below the cap, and 15 from frequency 6.
C7_HistoricalCap ==
    \A r \in MPIDf :
        LET f == ward_historical.rows[r.ward_id].hist_flood_freq
        IN  /\ r.hist_score <= 15 * Unit
            /\ (f = 0) => r.hist_score = 0
            /\ (f < 60) => r.hist_score = f * 225
            /\ (f >= 60) => r.hist_score = 15 * Unit

\* a ward with ten or more past floods, whose uncapped value would be 25
C7_Witness ==
    \E r \in MPIDf :
        /\ ward_historical.rows[r.ward_id].hist_flood_freq >= 100
        /\ r.hist_score = 15 * Unit

\* C8: the four infrastructure sub-terms stay within 6, 4, 3 and 2 points and
\* the infrastructure component, their sum, within [0,15].
C8_InfraSubTermCaps ==
    \A r \in MPIDf :
        /\ r.drain_stress >= 0 /\ r.drain_stress <= 6 * Unit
        /\ r.sewerage_stress >= 0 /\ r.sewerage_stress <= 4 * Unit
        /\ r.drainage_stress >= 0 /\ r.drainage_stress <= 3 * Unit
        /\ r.pothole_stress >= 0 /\ r.pothole_stress <= 2 * Unit
        /\ r.infra_score = r.drain_stress + r.sewerage_stress
                           + r.drainage_stress + r.pothole_stress
        /\ r.infra_score >= 0 /\ r.infra_score <= 15 * Unit

\* a ward where every sub-term sits at its cap
C8_Witness ==
    \E r \in MPIDf :
        /\ r.drain_stress = 6 * Unit /\ r.sewerage_stress = 4 * Unit
        /\ r.drainage_stress = 3 * Unit /\ r.pothole_stress = 2 * Unit
        /\ r.infra_score = 15 * Unit

NoCivicEntry(w) ==
    /\ civic_complaints.is_none \/ w \notin DOMAIN civic_complaints.rows
    /\ \/ pothole_by_ward.is_none
       \/ WardName(w, ward_static.rows[w]) \notin DOMAIN pothole_by_ward.rows

\* C10: a ward with no civic entry gets 0 from the sewerage, drainage and
\* pothole sub-terms, and its infrastructure component is the drain stress
\* max(0, 10 - drain_density) / 10 * 6 of its static drain_density.
C10_MissingCivicIsZero ==
    \A r \in MPIDf :
        NoCivicEntry(r.ward_id) =>
            /\ r.sewerage_stress = 0
            /\ r.drainage_stress = 0
            /\ r.pothole_stress = 0
            /\ r.infra_score
                   = Max(0, 100 - ward_static.rows[r.ward_id].drain_density) * 54

\* a ward without civic entry whose drain stress is positive
C10_Witness ==
    \E r \in MPIDf :
        /\ NoCivicEntry(r.ward_id)
        /\ ~civic_complaints.is_none
        /\ r.infra_score > 0

\* the end-to-end scenario holds for ward w: no drains, 70 mm of rain in three
\* hours and none forecast (the rainfall fields the scenario leaves out at
\* their default 0), no flood history, reference elevation, nothing
\* low-lying, probability 0.9, no civic data and no precomputed index
Scenario(w) ==
    /\ w \in DOMAIN ward_static.rows
    /\ w \in DOMAIN ward_historical.rows
    /\ ward_static.rows[w].drain_density = 0
    /\ ward_static.rows[w].mean_elevation = 220
    /\ ward_static.rows[w].low_lying_pct = 0
    /\ "flood_vulnerability_index" \notin DOMAIN ward_static.rows[w]
    /\ ward_historical.rows[w].hist_flood_freq = 0
    /\ rainfall_features.rain_3h = 70000
    /\ rainfall_features.rain_forecast_3h = 0
    /\ rainfall_features.rain_1h = 0
    /\ predictor[w] = 900
    /\ NoCivicEntry(w)

\* C11: the model component of every record is probability * 40, and in the
\* end-to-end scenario the components are model 36, rainfall 20, historical
\* 0, infrastructure 6 and vulnerability 0, the total is 62 and the level is
\* High.
C11_ModelComponentAndScenario ==
    \A r \in MPIDf :
        /\ r.model_score * 1000 = r.model_prob * 40 * Unit
        /\ Scenario(r.ward_id) =>
               /\ r.model_score = 36 * Unit /\ r.model_contribution = 360
               /\ r.rain_score = 20 * Unit /\ r.rainfall_contribution = 200
               /\ r.hist_score = 0 /\ r.historical_contribution = 0
               /\ r.infra_score = 6 * Unit /\ r.drain_stress = 6 * Unit
               /\ r.infrastructure_contribution = 60
               /\ r.vuln_score = 0 /\ r.vulnerability_contribution = 0
               /\ r.mpi = 62 * Unit /\ r.mpi_score = 620
               /\ r.risk_level = "High"

\* the scenario has been scored
C11_Witness ==
    \E r \in MPIDf : Scenario(r.ward_id) /\ r.mpi_score = 620

\* C12: weakest_component names a component whose value is the least of the
\* five, and no component earlier in the order Infrastructure, Resilience,
\* Resources, Vulnerability, Maintenance has that value too.
C12_WeakestComponent ==
    \A r \in PrepDf :
        \E k \in 1..Len(ComponentOrder) :
            /\ ComponentOrder =
                   <<"Infrastructure", "Resilience", "Resources",
                     "Vulnerability", "Maintenance">>
            /\ r.weakest_component = ComponentOrder[k]
            /\ \A j \in 1..Len(ComponentOrder) :
                   r.component_scores[ComponentOrder[k]]
                       <= r.component_scores[ComponentOrder[j]]
            /\ \A j \in 1..(k - 1) :
                   r.component_scores[ComponentOrder[j]]
                       > r.component_scores[ComponentOrder[k]]

\* a ward whose least value is shared by two components
C12_Witness ==
    \E r \in PrepDf :
        \E a, b \in DOMAIN r.component_scores :
            /\ a # b
            /\ r.weakest_component = a
            /\ r.component_scores[a] = r.component_scores[b]

\* the ward records after calculate_zone_preparedness has been called on them
ZonedWards ==
    IF zone_out.status # "none"
    THEN {prep_out.df[k] : k \in 1..Len(prep_out.df)} ELSE {}

\* the zone summaries a completed calculate_zone_preparedness returned
ZoneDf == IF zone_out.status = "ok"
          THEN {zone_out.df[k] : k \in 1..Len(zone_out.df)} ELSE {}

\* the letters of a ward id, in order
Letters(w) == SelectSeq(Chars[w], IsAlpha)

\* the total scores of the wards of a zone, in ward order
ZoneScores(zone_name) ==
    LET members == SelectSeq(prep_out.df, LAMBDA r : r.zone = zone_name)
    IN  [k \in 1..Len(members) |-> members[k].preparedness_score]

\* the weakest components of the wards of a zone, in ward order
ZoneWeaknesses(zone_name) ==
    LET members == SelectSeq(prep_out.df, LAMBDA r : r.zone = zone_name)
    IN  [k \in 1..Len(members) |-> members[k].weakest_component]

\* the sum of a list of numbers
RECURSIVE SeqSum(_)
SeqSum(xs) == IF xs = <<>> THEN 0 ELSE Head(xs) + SeqSum(Tail(xs))

\* C13: the zone key of a ward is "Zone_" followed by the letters of its
\* ward id in order; a ward id gets the key Zone_Unknown if and only if it
\* has no letter; ward ids with the same letters share a zone.
C13_ZoneKeyFromLetters ==
    \A r \in ZonedWards :
        /\ Letters(r.ward_id) # <<>> =>
               r.zone = "Zone_" \o Join(Letters(r.ward_id))
        /\ r.zone = "Zone_Unknown" <=> Letters(r.ward_id) = <<>>
        /\ \A q \in ZonedWards :
               Letters(q.ward_id) = Letters(r.ward_id) => q.zone = r.zone

\* C14 as stated: the reported mean, min and max of every zone are the mean,
\* the least and the greatest of the total scores of exactly its wards.
C14_ZoneStatisticsExact ==
    \A z \in ZoneDf :
        LET scores == ZoneScores(z.zone)
            n == Len(scores)
        IN  /\ n >= 1
            /\ z.avg_preparedness * n = SeqSum(scores)
            /\ \E k \in 1..n : z.min_preparedness = scores[k]
            /\ \E k \in 1..n : z.max_preparedness = scores[k]
            /\ \A k \in 1..n : z.min_preparedness <= scores[k]
            /\ \A k \in 1..n : z.max_preparedness >= scores[k]
            /\ z.min_preparedness <= z.avg_preparedness
            /\ z.avg_preparedness <= z.max_preparedness

\* C14 amended: the reported min and max of every zone are the least and the
\* greatest total score of exactly its wards, and the reported mean is the
\* mean of those scores rounded to one decimal, so min <= mean <= max; wards
\* scoring 20, 40 and 60 give mean 40.0, min 20 and max 60.
C14_ZoneStatisticsRounded ==
    \A z \in ZoneDf :
        LET scores == ZoneScores(z.zone)
            n == Len(scores)
            off == z.avg_preparedness * n - SeqSum(scores)
        IN  /\ n >= 1
            /\ 2 * off <= n /\ 2 * off >= -n
            /\ \E k \in 1..n : z.min_preparedness = scores[k]
            /\ \E k \in 1..n : z.max_preparedness = scores[k]
            /\ \A k \in 1..n : z.min_preparedness <= scores[k]
            /\ \A k \in 1..n : z.max_preparedness >= scores[k]
            /\ z.min_preparedness <= z.avg_preparedness
            /\ z.avg_preparedness <= z.max_preparedness
            /\ scores = <<200, 400, 600>> =>
                   /\ z.avg_preparedness = 400
                   /\ z.min_preparedness = 200
                   /\ z.max_preparedness = 600

\* the zone of the wards scoring 20, 40 and 60 has been summarised
C14_Witness ==
    \E z \in ZoneDf :
        /\ ZoneScores(z.zone) = <<200, 400, 600>>
        /\ z.avg_preparedness = 400

\* the weakest components of a zone that no other outnumbers
TopCounted(zone_name) ==
    LET values == ZoneWeaknesses(zone_name)
        count(v) == Cardinality({k \in 1..Len(values) : values[k] = v})
    IN  {values[k] : k \in {i \in 1..Len(values) :
            \A j \in 1..Len(values) : count(values[i]) >= count(values[j])}}

\* C15 as stated: the top weakness of a zone is a weakest component with the
\* highest count among its wards, and among several with the highest count
\* it is the one met first in the zone's ward order.
C15_TopWeaknessFirstEncountered ==
    \A z \in ZoneDf :
        LET values == ZoneWeaknesses(z.zone)
            top == TopCounted(z.zone)
        IN  /\ z.top_weakness \in top
            /\ \E k \in 1..Len(values) :
                   /\ values[k] = z.top_weakness
                   /\ \A j \in 1..(k - 1) : values[j] \notin top

\* C15 amended: the top weakness of a zone is a weakest component with the
\* highest count among its wards, and among several with the highest count
\* it is the one that comes first alphabetically, wherever it is met.
C15_TopWeaknessFirstSorted ==
    \A z \in ZoneDf :
        LET top == TopCounted(z.zone)
        IN  /\ z.top_weakness \in top
            /\ \E k \in 1..Len(SortedNames) :
                   /\ SortedNames[k] = z.top_weakness
                   /\ \A j \in 1..(k - 1) : SortedNames[j] \notin top

\* a zone where two weakest components tie and the one reported is not the
\* one met first
C15_Witness ==
    \E z \in ZoneDf :
        LET values == ZoneWeaknesses(z.zone)
        IN  /\ Cardinality(TopCounted(z.zone)) >= 2
            /\ values[1] # z.top_weakness

\* C16: the zone summaries are returned in ascending order of their mean
\* total score: of two adjacent summaries the earlier has the lower or equal
\* mean.
C16_ZonesAscendingByMean ==
    zone_out.status = "ok" =>
        \A k \in 1..(Len(zone_out.df) - 1) :
            zone_out.df[k].avg_preparedness <= zone_out.df[k + 1].avg_preparedness

\* three zones with three different means have been returned
C16_Witness ==
    /\ zone_out.status = "ok"
    /\ Len(zone_out.df) = 3
    /\ zone_out.df[1].avg_preparedness < zone_out.df[2].avg_preparedness
    /\ zone_out.df[2].avg_preparedness < zone_out.df[3].avg_preparedness

\* C17: the list calculate_mpi returns holds exactly one record for every
\* ward of the static table, and of two adjacent records the earlier has the
\* higher or equal mpi_score.
C17_OneRecordPerWardDescending ==
    mpi_out.status = "ok" =>
        /\ Len(mpi_out.df) = Len(ward_static.index)
        /\ \A w \in DOMAIN ward_static.rows :
               Cardinality({k \in 1..Len(mpi_out.df) : mpi_out.df[k].ward_id = w}) = 1
        /\ \A k \in 1..Len(mpi_out.df) :
               mpi_out.df[k].ward_id \in DOMAIN ward_static.rows
        /\ \A k \in 1..(Len(mpi_out.df) - 1) :
               mpi_out.df[k].mpi_score >= mpi_out.df[k + 1].mpi_score

\* two wards were scored and the one later in the static table comes first
C17_Witness ==
    /\ mpi_out.status = "ok"
    /\ Len(mpi_out.df) = 2
    /\ mpi_out.df[1].ward_id = ward_static.index[2]
    /\ mpi_out.df[1].mpi_score > mpi_out.df[2].mpi_score

\* the wards of the calculator's static table without a historical row
Unrecorded ==
    IF ward_static.is_none THEN {}
    ELSE DOMAIN ward_static.rows \ DOMAIN ward_historical.rows

\* the wards of the service's static table without a historical row
ServiceUnrecorded ==
    DOMAIN service.ward_static_data.rows \ DOMAIN service.ward_historical_data.rows

\* C18: for a ward present in the static table and absent from the
\* historical table, predict_ward, predict_all_wards, calculate_mpi and
\* calculate_monsoon_preparedness complete without error, using
\* hist_flood_freq 0, monsoon_risk_score 0.5 and complaint_baseline 5 for it.
C18_MissingHistoryUsesDefaults ==
    /\ Unrecorded # {} =>
           /\ mpi_out.status \in {"none", "ok"}
           /\ prep_out.status \in {"none", "ok"}
           /\ \A r \in MPIDf :
                  r.ward_id \in Unrecorded =>
                      r.hist_flood_count = 0 /\ r.hist_score = 0
           /\ \A r \in PrepDf :
                  r.ward_id \in Unrecorded =>
                      /\ r.hist_flood_count = 0
                      /\ r.component_scores.Resilience = 30 * Unit
    /\ (service.model /\ response.op = "predict_ward"
           /\ response.ward_id \in ServiceUnrecorded) =>
           /\ response.code = 200
           /\ response.vectors =
                  <<[ward_id |-> response.ward_id, hist_feats |-> HistDefaults]>>
    /\ (service.model /\ response.op = "predict_all"
           /\ ServiceUnrecorded # {}) =>
           /\ response.code = 200
           /\ \A w \in ServiceUnrecorded :
                  \E k \in 1..Len(response.vectors) :
                      response.vectors[k] =
                          [ward_id |-> w, hist_feats |-> HistDefaults]

\* C19: without civic data for a ward (load_civic_complaints never called,
\* or no row for the ward in what it loaded), calculate_mpi and
\* calculate_monsoon_preparedness complete and every civic sub-score of the
\* ward is 0.
C19_NoCivicDataIsNoError ==
    \A w \in DOMAIN ward_static.rows \cap DOMAIN ward_historical.rows :
        (~civic_loaded \/ NoCivicEntry(w)) =>
            /\ mpi_out.status \in {"none", "ok"}
            /\ prep_out.status \in {"none", "ok"}
            /\ \A r \in MPIDf :
                   r.ward_id = w =>
                       /\ r.sewerage_stress = 0
                       /\ r.drainage_stress = 0
                       /\ r.pothole_stress = 0
            /\ \A r \in PrepDf :
                   r.ward_id = w =>
                       r.component_scores.Infrastructure =
                           Min(30 * Unit, ward_static.rows[w].drain_density * 450)

\* C20: while no model is loaded, POST /predict, POST /api/predict/ward and
\* POST /api/predict/all answer 503 "Model not loaded" without building a
\* feature vector, whatever ward data is loaded and whatever ward is asked
\* for; and main() returns right after load_model fails, with no table
\* loaded, no ward scored and no file written.
C20_ModelUnavailableFirst ==
    /\ (service.state = "up" /\ ~service.model
           /\ response.op \in {"predict", "predict_ward", "predict_all"}) =>
           /\ response.code = 503
           /\ response.detail = "Model not loaded"
           /\ response.vectors = <<>>
           /\ response.body = <<>>
    /\ (~calc_model /\ pc # "start") =>
           /\ pc = "returned"
           /\ ward_static.is_none
           /\ ward_historical.is_none
           /\ ~civic_loaded
           /\ mpi_out = NotCalled
           /\ prep_out = NotCalled
           /\ zone_out = NotCalled
           /\ written = EmptyMap

\* without a model, a ward that is in the loaded ward data was asked for and
\* refused, and main() has returned
C20_Witness ==
    /\ service.state = "up"
    /\ ~service.model
    /\ response.op = "predict_ward"
    /\ response.ward_id \in DOMAIN service.ward_static_data.rows
    /\ response.code = 503
    /\ pc = "returned"
    /\ files.wards.ok

\* C21: with the predictor loaded, a request naming a ward the static table
\* does not hold (the table being empty included) is answered 404 ward not
\* found by get_ward_info and by predict_ward, and no feature vector is
\* built and no prediction returned for it.
C21_WardNotFound ==
    (/\ response.op \in {"get_ward_info", "predict_ward"}
     /\ service.model
     /\ response.ward_id \notin DOMAIN service.ward_static_data.rows)
        => /\ response.code = 404
           /\ response.detail = "Ward not found"
           /\ response.vectors = <<>>
           /\ response.body = <<>>

\* predict_ward answered 404 for a ward missing from a loaded, non-empty
\* static table, the model being loaded
C21_Witness ==
    /\ response.op = "predict_ward"
    /\ response.code = 404
    /\ service.model
    /\ Len(service.ward_static_data.index) > 0
    /\ response.ward_id \notin DOMAIN service.ward_static_data.rows

\* the wards a returned frame or list holds a record of
Recorded(rows) == {rows[k].ward_id : k \in 1..Len(rows)}

\* C22: in a batch over all wards a failure at one ward stays with that ward:
\* once calculate_mpi was called on a calculator with a model and ward
\* tables, every ward whose own pass raises nothing has a record in the
\* result, and predict_all_wards with a model answers with a record of every
\* ward; only a missing model ends the batch, before any feature vector.
C22_BatchFailureIsLocal ==
    /\ (mpi_out.status # "none" /\ calc_model /\ ~ward_static.is_none)
           => \A k \in 1..Len(ward_static.index) :
                  WardFailure(ward_static.index[k]) = "ok"
                      => ward_static.index[k] \in Recorded(mpi_out.df)
    /\ (response.op = "predict_all" /\ service.model)
           => \A k \in 1..Len(service.ward_static_data.index) :
                  service.ward_static_data.index[k] \in Recorded(response.body)
    /\ (response.op = "predict_all" /\ ~service.model)
           => response.code = 503 /\ response.vectors = <<>>

\* the records of a frame, whatever their order
RowSet(rows) == {rows[k] : k \in 1..Len(rows)}

\* C23: scoring is deterministic: when the script is run again on the same
\* files (static, historical and civic data present or absent as before, the
\* same rainfall observation, growth rate and predictor), calculate_mpi
\* returns for every ward the record the run before wrote to
\* mpi_scores_latest.csv.
C23_RerunSameRecords ==
    (pc = "generate_mpi_report" /\ "mpi_scores_latest.csv" \in DOMAIN written)
        => RowSet(mpi_out.df) = RowSet(written["mpi_scores_latest.csv"])

\* the tables the calculator has loaded
LoadedTables ==
    <<ward_static, ward_historical, civic_loaded, civic_complaints,
      pothole_by_ward, sewerage_growth_rate>>

\* C24: scoring and aggregation leave their inputs alone: no call changes
\* the loaded static, historical and civic tables, and a call of
\* calculate_zone_preparedness leaves the ward preparedness records it was
\* given as they were (same rows, same fields).
C24_NoSideEffects ==
    [][/\ LoadedTables' = LoadedTables
       /\ zone_out' # zone_out => prep_out'.df = prep_out.df]_vars

\* C25: once startup has run, GET /api/health is answered 200 with a body
\* whose model_loaded tells whether the model was loaded and whose
\* wards_count is the number of wards loaded (0 when loading failed).
C25_ApiHealthReports ==
    response.op = "api_health"
        => /\ response.code = 200
           /\ response.body[1].model_loaded = service.model
           /\ response.body[1].wards_count = Len(service.ward_static_data.index)

\* C26: while the latest MPI scores file does not exist, GET /api/mpi-summary
\* is answered 404 "MPI data not found"; 500 is kept for an existing file
\* that cannot be read or summarised.
C26_MissingFileIsNotFound ==
    (response.op = "mpi_summary" /\ "mpi_scores_latest.csv" \notin DOMAIN written)
        => response.code = 404 /\ response.detail = "MPI data not found"

\* C27: every request POST /predict accepts is answered, the model being
\* loaded, with an mpi_score between 0.0 and 1.0 and with the risk level the
\* thresholds 0.75, 0.50 and 0.25 give (mpi_score in hundredths).
C27_SimpleScoreInRange ==
    (response.op = "predict" /\ response.code = 200)
        => /\ response.body[1].mpi_score \in 0..100
           /\ response.body[1].risk_level =
                  IF response.body[1].mpi_score >= 75 THEN "Critical"
                  ELSE IF response.body[1].mpi_score >= 50 THEN "High"
                  ELSE IF response.body[1].mpi_score >= 25 THEN "Moderate"
                  ELSE "Low"

\* C28: in main() a failed load_ward_data ends the workflow as a failed
\* load_model does: load_civic_complaints is not run, no ward is scored, no
\* preparedness or zone record is computed and no file is written.
C28_WardDataFailureIsTerminal ==
    (~files.wards.ok /\ pc # "start")
        => /\ ~civic_loaded
           /\ mpi_out.status = "none"
           /\ prep_out.status = "none"
           /\ zone_out.status = "none"
           /\ written = EmptyMap

ZoneMembers(zone_name) ==
    {k \in 1..Len(prep_out.df) : prep_out.df[k].zone = zone_name}

\* C30: zone aggregation partitions the wards: every input ward is counted
\* in exactly one zone record, every zone record counts at least one ward,
\* the ward counts add up to the number of input wards, and in every zone
\* 0 <= critical_wards <= poor_wards <= ward_count.
C30_ZonesPartitionWards ==
    zone_out.status = "ok"
        => /\ \A k \in 1..Len(prep_out.df) :
                  Cardinality({j \in 1..Len(zone_out.df) :
                      /\ zone_out.df[j].zone = prep_out.df[k].zone
                      /\ zone_out.df[j].ward_count
                             = Cardinality(ZoneMembers(prep_out.df[k].zone))}) = 1
           /\ \A z \in ZoneDf :
                  /\ z.ward_count >= 1
                  /\ 0 <= z.critical_wards
                  /\ z.critical_wards <= z.poor_wards
                  /\ z.poor_wards <= z.ward_count
           /\ ColumnSum(zone_out.df, "ward_count") = Len(prep_out.df)

\* three wards in two zones, one zone with a ward below 30 and another
\* between 30 and 45: critical_wards 1, poor_wards 2, ward_count 2
C30_Witness ==
    /\ zone_out.status = "ok"
    /\ Len(prep_out.df) = 3
    /\ Len(zone_out.df) = 2
    /\ \E z \in ZoneDf :
           z.critical_wards = 1 /\ z.poor_wards = 2 /\ z.ward_count = 2
====
